---- MODULE Spec2Model ----
(***************************************************************************)
(* A model of wallrus' two core subsystems:                                *)
(*   - src/shader.rs   : ShaderProgram::new / compile_shader / delete,     *)
(*                       over a model of the GL object store;              *)
(*   - src/palette.rs  : extract_colors_from_image, save_palette_image,    *)
(*                       delete_palette_image, list_palette_categories,    *)
(*                       over a model of the filesystem and the clock.     *)
(***************************************************************************)
EXTENDS Integers, Sequences, FiniteSets, TLC

VARIABLES
    gl,       \* the GL context's object store
    owned,    \* program ids held by live ShaderProgram values
    call,     \* what the last ShaderProgram call did
    fs,       \* the filesystem: directories and files
    now,      \* the system clock, in seconds since the epoch
    op,       \* what the last palette operation did
    img,      \* the decoded image handed to the sampler
    sample    \* what the sampler returned for img

vars == <<gl, owned, call, fs, now, op, img, sample>>

(***************************************************************************)
(* Bounds of the model.                                                    *)
(***************************************************************************)
MaxLive == 6        \* GL object names are 1..MaxLive

(***************************************************************************)
(*                         src/shader.rs                                   *)
(***************************************************************************)

\* The GL object names, and the diagnostics a driver may return.
Names == 1..MaxLive
Logs == {"log_a", "log_b"}

\* What the driver does with one shader stage or with the link: whether the
\* object can be created, whether compile/link succeeds, and the info log.
\* The log is read only on a failure, and the status only of an object that
\* was created.
Driver ==
    {[create |-> TRUE, status |-> TRUE, log |-> ""]}
    \cup [create : {TRUE}, status : {FALSE}, log : Logs]
    \cup [create : {FALSE}, status : {FALSE}, log : Logs]

EmptyGl == [shaders |-> {}, programs |-> {}, attached |-> {}, flagged |-> {}]

\* Number of live GL objects (shader stage objects and program objects).
LiveCount(g) == Cardinality(g.shaders) + Cardinality(g.programs)

\* glCreateShader / glCreateProgram hand out a name not in use.
FreshName(g) == CHOOSE n \in Names : /\ n \notin g.shaders \cup g.programs
                                      /\ \A m \in Names : m < n => m \in g.shaders \cup g.programs

gl_create_shader(g) == [g EXCEPT !.shaders = @ \cup {FreshName(g)}]

gl_create_program(g) == [g EXCEPT !.programs = @ \cup {FreshName(g)}]

gl_attach_shader(g, p, s) == [g EXCEPT !.attached = @ \cup {<<p, s>>}]

\* glDeleteShader: an attached shader is only flagged for deletion.
gl_delete_shader(g, s) ==
    IF \E p \in g.programs : <<p, s>> \in g.attached
    THEN [g EXCEPT !.flagged = @ \cup {s}]
    ELSE [g EXCEPT !.shaders = @ \ {s}, !.flagged = @ \ {s}]

\* glDetachShader: a detached shader flagged for deletion is deleted.
gl_detach_shader(g, p, s) ==
    LET att == g.attached \ {<<p, s>>}
        gone == s \in g.flagged /\ ~ \E q \in g.programs : <<q, s>> \in att
    IN  [g EXCEPT !.attached = att,
                  !.shaders = IF gone THEN @ \ {s} ELSE @,
                  !.flagged = IF gone THEN @ \ {s} ELSE @]

\* glDeleteProgram: the program's shaders are detached, flagged ones deleted.
gl_delete_program(g, p) ==
    LET att == {e \in g.attached : e[1] # p}
        gone == {s \in g.flagged : ~ \E e \in att : e[2] = s}
    IN  [g EXCEPT !.programs = @ \ {p},
                  !.attached = att,
                  !.shaders = @ \ gone,
                  !.flagged = @ \ gone]

Ok(id) == [ok |-> TRUE, kind |-> "ok", stage |-> "", log |-> "", id |-> id]
Err(kind, stage, log) == [ok |-> FALSE, kind |-> kind, stage |-> stage, log |-> log, id |-> 0]

\* match shader_type { VERTEX_SHADER => "vertex", FRAGMENT_SHADER => "fragment" }
type_name(shader_type) ==
    CASE shader_type = "VERTEX_SHADER" -> "vertex"
      [] shader_type = "FRAGMENT_SHADER" -> "fragment"
      [] OTHER -> "unknown"

\* The log a failed stage reports.
StageLog(d) == d.log

\* (mutant) the failed stage object is not released.
LeakFailedStage(g, s) == g

\* What compile_shader does with the stage object whose compilation failed.
ReleaseFailedStage(g, s) == gl_delete_shader(g, s)

\* ShaderProgram::compile_shader: the store afterwards, the result, and the
\* objects made (in creation order).
compile_shader(g, shader_type, d) ==
    IF ~d.create
    THEN [gl |-> g, result |-> Err("create", "", d.log), made |-> <<>>]
    ELSE LET s == FreshName(g)
             g1 == gl_create_shader(g)
             m == <<[kind |-> type_name(shader_type), id |-> s]>>
         IN  IF ~d.status
             THEN [gl |-> ReleaseFailedStage(g1, s),
                   result |-> Err("compile", type_name(shader_type), StageLog(d)),
                   made |-> m]
             ELSE [gl |-> g1, result |-> Ok(s), made |-> m]

\* The link-failure exit of ShaderProgram::new.
LinkFailedCleanup(g, program, vs, fsh) ==
    gl_delete_shader(gl_delete_shader(gl_delete_program(g, program), vs), fsh)

\* (mutant) the stages are deleted while still attached to the program.
LinkedCleanupNoDetach(g, program, vs, fsh) ==
    gl_delete_shader(gl_delete_shader(g, vs), fsh)

\* The success exit of ShaderProgram::new.
LinkedCleanup(g, program, vs, fsh) ==
    gl_delete_shader(
        gl_delete_shader(
            gl_detach_shader(gl_detach_shader(g, program, vs), program, fsh),
            vs),
        fsh)

\* ShaderProgram::new, from create_program on.
link_program(g, vs, fsh, l, made) ==
    IF ~l.create
    THEN [gl |-> g, result |-> Err("create", "", l.log), made |-> made]
    ELSE LET program == FreshName(g)
             g1 == gl_attach_shader(
                       gl_attach_shader(gl_create_program(g), program, vs),
                       program, fsh)
             m == made \o <<[kind |-> "program", id |-> program]>>
         IN  IF ~l.status
             THEN [gl |-> LinkFailedCleanup(g1, program, vs, fsh),
                   result |-> Err("link", "", l.log), made |-> m]
             ELSE [gl |-> LinkedCleanup(g1, program, vs, fsh),
                   result |-> Ok(program), made |-> m]

\* ShaderProgram::new: the `?` after each compile_shader returns at once.
ShaderProgram_new(g, v, f, l) ==
    LET r1 == compile_shader(g, "VERTEX_SHADER", v)
    IN  IF ~r1.result.ok THEN r1
        ELSE LET r2 == compile_shader(r1.gl, "FRAGMENT_SHADER", f)
             IN  IF ~r2.result.ok
                 THEN [r2 EXCEPT !.made = r1.made \o @]
                 ELSE link_program(r2.gl, r1.result.id, r2.result.id, l,
                                   r1.made \o r2.made)

NoDriver == [create |-> TRUE, status |-> TRUE, log |-> ""]

NoCall == [name |-> "none", before |-> 0, result |-> Ok(0), made |-> <<>>,
           v |-> NoDriver, f |-> NoDriver, l |-> NoDriver]

\* A caller invokes ShaderProgram::new with sources the driver treats as
\* v (vertex), f (fragment) and l (link).
New(v, f, l) ==
    /\ LiveCount(gl) + 3 <= MaxLive
    /\ LET r == ShaderProgram_new(gl, v, f, l)
       IN  /\ gl' = r.gl
           /\ owned' = IF r.result.ok THEN owned \cup {r.result.id} ELSE owned
           /\ call' = [name |-> "new", before |-> LiveCount(gl),
                       result |-> r.result, made |-> r.made,
                       v |-> v, f |-> f, l |-> l]
    /\ UNCHANGED <<fs, now, op, img, sample>>

\* ShaderProgram::delete consumes the value and deletes its program.
Delete(p) ==
    /\ p \in owned
    /\ gl' = gl_delete_program(gl, p)
    /\ owned' = owned \ {p}
    /\ call' = [NoCall EXCEPT !.name = "delete", !.before = LiveCount(gl)]
    /\ UNCHANGED <<fs, now, op, img, sample>>

InitShader ==
    /\ gl = EmptyGl
    /\ owned = {}
    /\ call = NoCall
    /\ fs = 0 /\ now = 0 /\ op = 0 /\ img = 0 /\ sample = 0

\* The driver is asked about a stage only when new reaches it.
NextShader ==
    \/ \E v \in Driver :
         \E f \in (IF v.status THEN Driver ELSE {NoDriver}) :
           \E l \in (IF v.status /\ f.status THEN Driver ELSE {NoDriver}) :
             New(v, f, l)
    \/ \E p \in Names : Delete(p)

SpecShader == InitShader /\ [][NextShader]_vars

\* The objects the last call of new made, by kind.
MadeIds(kind) == {call.made[i].id : i \in {j \in DOMAIN call.made : call.made[j].kind = kind}}
MadeAll == {call.made[i].id : i \in DOMAIN call.made}
LiveOf(ids) == ids \cap (gl.shaders \cup gl.programs)

\* C1: every call of new that returns an error has released every GL object
\* it allocated: as many objects are live after the call as before it.
C1_NoLeakOnError ==
    (call.name = "new" /\ ~call.result.ok) =>
        /\ LiveOf(MadeAll) = {}
        /\ LiveCount(gl) = call.before

\* C2: the vertex stage is compiled first; when its compilation fails, new
\* returns at once an error naming the "vertex" stage with the compiler's
\* log, no fragment stage or program object was made, the vertex stage
\* object is released and nothing the call allocated remains.
C2_VertexFailure ==
    call.name = "new" =>
        /\ (call.made # <<>>) => call.made[1].kind = "vertex"
        /\ \A i \in DOMAIN call.made : call.made[i].kind = "fragment" => i = 2
        /\ (call.v.create /\ ~call.v.status) =>
              /\ call.result = Err("compile", "vertex", call.v.log)
              /\ Len(call.made) = 1
              /\ MadeIds("fragment") = {} /\ MadeIds("program") = {}
              /\ LiveOf(MadeAll) = {}
              /\ LiveCount(gl) = call.before

C2_Witness ==
    /\ call.name = "new" /\ call.v.create /\ ~call.v.status
    /\ call.before > 0
    /\ owned # {}

\* C3: once both stages compiled and the program object was allocated and
\* linked, both stage objects are released in either outcome and the program
\* object stays allocated iff linking succeeded: on success exactly the
\* returned program remains, with nothing attached; on failure the result is
\* a link error with the linker's log and nothing the call allocated remains.
C3_AfterLink ==
    (call.name = "new" /\ MadeIds("program") # {}) =>
        /\ LiveOf(MadeIds("vertex") \cup MadeIds("fragment")) = {}
        /\ (LiveOf(MadeIds("program")) # {}) <=> call.result.ok
        /\ call.result.ok =>
              /\ LiveOf(MadeAll) = {call.result.id}
              /\ MadeIds("program") = {call.result.id}
              /\ call.result.id \in owned
              /\ LiveCount(gl) = call.before + 1
              /\ ~ \E e \in gl.attached : e[1] = call.result.id
        /\ ~call.result.ok =>
              /\ call.result = Err("link", "", call.l.log)
              /\ LiveOf(MadeAll) = {}
              /\ LiveCount(gl) = call.before

C3_Witness ==
    /\ call.name = "new" /\ MadeIds("program") # {}
    /\ ~call.result.ok /\ call.before > 0
    /\ owned # {}

(***************************************************************************)
(*                         src/palette.rs                                  *)
(*                                                                         *)
(* A string is the sequence of its bytes (ASCII); a path is the sequence   *)
(* of its components below "/".                                            *)
(***************************************************************************)
N_home == <<104, 111, 109, 101>>   \* "home"
N_data == <<100, 97, 116, 97>>   \* "data"
N_palettes == <<112, 97, 108, 101, 116, 116, 101, 115>>   \* "palettes"
N_usr == <<117, 115, 114>>   \* "usr"
N_bin == <<98, 105, 110>>   \* "bin"
N_share == <<115, 104, 97, 114, 101>>   \* "share"
N_wallrus == <<119, 97, 108, 108, 114, 117, 115>>   \* "wallrus"
N_app == <<97, 112, 112>>   \* "app"
N_warm == <<119, 97, 114, 109>>   \* "warm"
N_Warm == <<87, 97, 114, 109>>   \* "Warm"
N_custom == <<99, 117, 115, 116, 111, 109>>   \* "custom"
N_a_png == <<97, 46, 112, 110, 103>>   \* "a.png"
N_b_PNG == <<98, 46, 80, 78, 71>>   \* "b.PNG"
N_c_png == <<99, 46, 112, 110, 103>>   \* "c.png"
N_notes_txt == <<110, 111, 116, 101, 115, 46, 116, 120, 116>>   \* "notes.txt"
S_png == <<112, 110, 103>>   \* "png"
S_jpg == <<106, 112, 103>>   \* "jpg"
S_jpeg == <<106, 112, 101, 103>>   \* "jpeg"
S_webp == <<119, 101, 98, 112>>   \* "webp"
S_Custom == <<67, 117, 115, 116, 111, 109>>   \* "Custom"
S_Uncategorized == <<85, 110, 99, 97, 116, 101, 103, 111, 114, 105, 122, 101, 100>>   \* "Uncategorized"
S_palette_ == <<112, 97, 108, 101, 116, 116, 101, 95>>   \* "palette_"
S_dot_png == <<46, 112, 110, 103>>   \* ".png"
DotDot == <<46, 46>>   \* ".."

\* pub const CUSTOM_CATEGORY: &str = "Custom";
CUSTOM_CATEGORY == S_Custom

\* char::to_uppercase and str::to_lowercase, on ASCII.
ToUpperChar(c) == IF c >= 97 /\ c <= 122 THEN c - 32 ELSE c
ToLowerChar(c) == IF c >= 65 /\ c <= 90 THEN c + 32 ELSE c
to_lowercase(s) == [i \in DOMAIN s |-> ToLowerChar(s[i])]

\* (mutant) the name is left as it is.
capitalize_none(s) == s

\* fn capitalize_first
capitalize_first(s) ==
    IF s = <<>> THEN <<>> ELSE <<ToUpperChar(Head(s))>> \o Tail(s)

\* Ord for str / OsStr: byte-wise lexicographic.
RECURSIVE StrLess(_, _)
StrLess(a, b) ==
    IF b = <<>> THEN FALSE
    ELSE IF a = <<>> THEN TRUE
    ELSE IF Head(a) # Head(b) THEN Head(a) < Head(b)
    ELSE StrLess(Tail(a), Tail(b))

\* Path::extension: what follows the last '.', none for a name without a
\* '.' or with its only '.' in front.
RECURSIVE LastDot(_, _)
LastDot(s, i) == IF i = 0 THEN 0 ELSE IF s[i] = 46 THEN i ELSE LastDot(s, i - 1)

extension(name) ==
    LET d == LastDot(name, Len(name))
    IN  IF d <= 1 THEN <<>> ELSE SubSeq(name, d + 1, Len(name))

\* Path::file_name: the last component.
file_name(path) == IF path = <<>> THEN <<>> ELSE path[Len(path)]

\* fn is_image_file
is_image_file(path) ==
    to_lowercase(extension(file_name(path))) \in {S_png, S_jpg, S_jpeg, S_webp}

\* (mutant) any path is taken to be inside base.
starts_with_any(path, base) == TRUE

\* Path::starts_with: whole components, `..` is not resolved.
starts_with(path, base) ==
    /\ Len(base) <= Len(path)
    /\ SubSeq(path, 1, Len(base)) = base

\* Path::join of one component, and Path::parent.
join(path, name) == Append(path, name)
parent(path) == IF path = <<>> THEN <<>> ELSE SubSeq(path, 1, Len(path) - 1)

(***************************************************************************)
(* The filesystem: fs.dirs is the set of directories ("/" = <<>> always    *)
(* exists), fs.files maps each regular file to its content. No symlinks,   *)
(* and every directory is readable.                                        *)
(***************************************************************************)
IsDir(f, path) == path = <<>> \/ path \in f.dirs
IsFile(f, path) == path \in DOMAIN f.files

\* The kernel's path walk: each component is applied in an existing
\* directory, `..` steps to the parent.
RECURSIVE Walk(_, _, _)
Walk(f, cur, rest) ==
    IF rest = <<>> THEN [ok |-> TRUE, path |-> cur]
    ELSE IF ~IsDir(f, cur) THEN [ok |-> FALSE, path |-> cur]
    ELSE IF Head(rest) = DotDot THEN Walk(f, parent(cur), Tail(rest))
    ELSE Walk(f, join(cur, Head(rest)), Tail(rest))

Resolve(f, path) == Walk(f, <<>>, path)

\* Path::exists, Path::is_dir, Path::is_file
exists(f, path) ==
    LET r == Resolve(f, path) IN r.ok /\ (IsDir(f, r.path) \/ IsFile(f, r.path))
is_dir(f, path) == LET r == Resolve(f, path) IN r.ok /\ IsDir(f, r.path)
is_file(f, path) == LET r == Resolve(f, path) IN r.ok /\ IsFile(f, r.path)

Prefixes(path) == {SubSeq(path, 1, n) : n \in 1..Len(path)}

\* std::fs::create_dir_all: fails when a prefix is a regular file or the
\* system refuses (io = FALSE); otherwise every missing prefix is created.
create_dir_all(f, path, io) ==
    IF ~io \/ \E q \in Prefixes(path) : IsFile(f, q)
    THEN [ok |-> FALSE, fs |-> f]
    ELSE [ok |-> TRUE, fs |-> [f EXCEPT !.dirs = @ \cup Prefixes(path)]]

\* std::fs::remove_file: the path is resolved by the kernel and must name a
\* regular file.
remove_file(f, path, io) ==
    LET r == Resolve(f, path)
    IN  IF ~io \/ ~r.ok \/ ~IsFile(f, r.path)
        THEN [ok |-> FALSE, fs |-> f]
        ELSE [ok |-> TRUE,
              fs |-> [f EXCEPT !.files = [q \in DOMAIN f.files \ {r.path} |-> f.files[q]]]]

\* std::fs::read_dir: the names in a directory (in no particular order).
read_dir(f, dir) ==
    {q[Len(q)] : q \in {q \in f.dirs \cup DOMAIN f.files : q # <<>> /\ parent(q) = dir}}


\* glib::user_data_dir() and std::env::current_exe()
user_data_dir == <<N_home, N_data>>
current_exe == <<N_usr, N_bin, N_wallrus>>

\* fn user_palettes_dir: the directory, and the filesystem after the
\* attempt to create it (whose failure is ignored).
user_palettes_dir(f, io) ==
    LET dir == join(user_data_dir, N_palettes)
    IN  [dir |-> dir,
         fs |-> IF ~exists(f, dir) THEN create_dir_all(f, dir, io).fs ELSE f]

UserDir == join(user_data_dir, N_palettes)

\* fn bundled_palettes_dir: the candidates in probing order; the first that
\* is a directory wins.
BundledCandidates ==
    << parent(parent(parent(current_exe))) \o <<N_data, N_palettes>>,
       parent(parent(current_exe)) \o <<N_share, N_wallrus, N_palettes>>,
       <<N_usr, N_share, N_wallrus, N_palettes>>,
       <<N_app, N_share, N_wallrus, N_palettes>> >>

bundled_palettes_dir(f) ==
    LET hits == {i \in DOMAIN BundledCandidates : is_dir(f, BundledCandidates[i])}
    IN  IF hits = {} THEN [some |-> FALSE, dir |-> <<>>]
        ELSE [some |-> TRUE,
              dir |-> BundledCandidates[CHOOSE i \in hits : \A j \in hits : i <= j]]

(***************************************************************************)
(* PaletteCategories = BTreeMap<String, Vec<PathBuf>>: the sequence of its *)
(* entries in key order.                                                   *)
(***************************************************************************)
\* categories.entry(name).or_default().push(path)
entry_push(cats, name, path) ==
    IF \E i \in DOMAIN cats : cats[i].name = name
    THEN [i \in DOMAIN cats |->
            IF cats[i].name = name
            THEN [cats[i] EXCEPT !.images = Append(@, path)] ELSE cats[i]]
    ELSE LET k == Cardinality({i \in DOMAIN cats : StrLess(cats[i].name, name)})
         IN  SubSeq(cats, 1, k) \o <<[name |-> name, images |-> <<path>>]>>
                 \o SubSeq(cats, k + 1, Len(cats))

\* The inner loop of collect_categorized_images over a subfolder, for every
\* order in which read_dir may yield the entries still to come.
RECURSIVE ScanSub(_, _, _, _, _)
ScanSub(f, dir, category_name, todo, cats) ==
    IF todo = {} THEN {cats}
    ELSE UNION {
           LET sub_path == join(dir, e)
               c2 == IF is_file(f, sub_path) /\ is_image_file(sub_path)
                     THEN entry_push(cats, category_name, sub_path)
                     ELSE cats
           IN  ScanSub(f, dir, category_name, todo \ {e}, c2)
           : e \in todo }

\* One entry of the root: a subfolder is a category, an image file goes to
\* "Uncategorized".
ScanEntry(f, root, e, cats) ==
    LET path == join(root, e)
    IN  IF is_dir(f, path)
        THEN ScanSub(f, path, capitalize_first(e), read_dir(f, path), cats)
        ELSE IF is_file(f, path) /\ is_image_file(path)
        THEN {entry_push(cats, S_Uncategorized, path)}
        ELSE {cats}

RECURSIVE ScanRoot(_, _, _, _)
ScanRoot(f, root, todo, cats) ==
    IF todo = {} THEN {cats}
    ELSE UNION { UNION { ScanRoot(f, root, todo \ {e}, c2)
                         : c2 \in ScanEntry(f, root, e, cats) }
                 : e \in todo }

\* fn collect_categorized_images: every map the scan of root can leave, one
\* per enumeration order; a root that cannot be read leaves the map alone.
collect_categorized_images(f, root, cats) ==
    IF ~is_dir(f, root) THEN {cats}
    ELSE ScanRoot(f, root, read_dir(f, root), cats)

\* images.sort_by(file_name): a stable sort.
RECURSIVE SortedInsert(_, _)
SortedInsert(sorted, x) ==
    IF sorted = <<>> THEN <<x>>
    ELSE IF StrLess(file_name(x), file_name(Head(sorted)))
    THEN <<x>> \o sorted
    ELSE <<Head(sorted)>> \o SortedInsert(Tail(sorted), x)

RECURSIVE sort_by_file_name(_)
sort_by_file_name(images) ==
    IF images = <<>> THEN <<>>
    ELSE SortedInsert(sort_by_file_name(SubSeq(images, 1, Len(images) - 1)),
                      images[Len(images)])

\* fn list_palette_categories: the filesystem afterwards and every catalog
\* the call can return.
list_palette_categories(f, io) ==
    LET b == bundled_palettes_dir(f)
        s1 == IF b.some THEN collect_categorized_images(f, b.dir, <<>>) ELSE {<<>>}
        u == user_palettes_dir(f, io)
        s2 == UNION {collect_categorized_images(u.fs, u.dir, c) : c \in s1}
    IN  [fs |-> u.fs,
         catalogs |-> {[i \in DOMAIN c |->
                          [c[i] EXCEPT !.images = sort_by_file_name(@)]] : c \in s2}]

(***************************************************************************)
(* Images. A decoded RGB8 image has a width, a height and a pixel at each  *)
(* (x, y); rows[y + 1][x + 1] when the pixels are stored, and a test       *)
(* pattern when rows is empty (images too large to store).                 *)
(***************************************************************************)
\* The unsigned word of the image dimensions and of the sampler's
\* arithmetic (u32 in the source), at a width TLC can enumerate: the
\* values are 0 .. U32 - 1 and arithmetic wraps at U32.
WordBits == 8
U32 == 2 ^ WordBits

PatternPixel(x, y) == <<x % 256, y % 256, (x + 2 * y) % 256>>

Image(width, height, rows) == [width |-> width, height |-> height, rows |-> rows]

\* ImageBuffer::get_pixel panics outside the image.
InBounds(image, x, y) == x < image.width /\ y < image.height

get_pixel(image, x, y) ==
    IF image.rows = <<>> THEN PatternPixel(x, y) ELSE image.rows[y + 1][x + 1]

\* (mutant) the row of band i without the clamp to the last row, sampled at
\* the end of the band.
SampleRowBandEnd(height, i) ==
    LET band_height == height \div 4
    IN  [cy |-> (band_height * i + band_height) % U32,
         wrapped |-> band_height * i + band_height >= U32]

\* let cy = band_height * i as u32 + band_height / 2; cy.min(height - 1)
SampleRow(height, i) ==
    LET band_height == height \div 4
        raw == band_height * i + band_height \div 2
        cy == raw % U32
        last == (height - 1) % U32
    IN  [cy |-> IF cy < last THEN cy ELSE last,
         wrapped |-> raw >= U32 \/ band_height * i >= U32 \/ height - 1 < 0]

\* let cx = width / 2;
SampleCol(width) == width \div 2

NoSample == [ok |-> FALSE, err |-> "none", colors |-> <<>>, at |-> <<>>,
             panic |-> FALSE, wrapped |-> FALSE]

\* The body of extract_colors_from_image on the decoded image: the 4 colors
\* (each channel the numerator of x/255), the positions read, and whether a
\* position was outside the image (get_pixel panics) or the arithmetic
\* wrapped.
extract_colors(image) ==
    IF image.width = 0 \/ image.height = 0
    THEN [NoSample EXCEPT !.err = "Image has zero dimensions"]
    ELSE LET cx == SampleCol(image.width)
             at == [i \in 1..4 |-> <<cx, SampleRow(image.height, i - 1).cy>>]
             bad == \E i \in 1..4 : ~InBounds(image, at[i][1], at[i][2])
         IN  [ok |-> ~bad, err |-> "",
              colors |-> IF bad THEN <<>>
                         ELSE [i \in 1..4 |-> get_pixel(image, at[i][1], at[i][2])],
              at |-> at,
              panic |-> bad,
              wrapped |-> \E i \in 1..4 : SampleRow(image.height, i - 1).wrapped]

\* What a file holds: an encoded image, or bytes no decoder accepts.
Truncated == [width |-> 0, height |-> 0, rows |-> <<"truncated">>]

\* fn extract_colors_from_image: image::open fails on a missing or
\* undecodable file.
extract_colors_from_image(f, path) ==
    IF ~is_file(f, path) \/ f.files[Resolve(f, path).path] = Truncated
    THEN [NoSample EXCEPT !.err = "Failed to load image"]
    ELSE extract_colors(f.files[Resolve(f, path).path])

(***************************************************************************)
(* save_palette_image. A color channel given to it is the numerator n of   *)
(* n / (255 * Sub): the 8-bit values are the multiples of Sub in           *)
(* 0..255*Sub, the other numerators are floats between or beyond them.     *)
(***************************************************************************)
Sub == 2

\* f32::round: half away from zero, of n / d.
Round(n, d) ==
    IF n >= 0 THEN (2 * n + d) \div (2 * d) ELSE 0 - ((2 * (0 - n) + d) \div (2 * d))

\* (color[k] * 255.0).round() as u8: the cast saturates.
Quantize(n) ==
    LET r == Round(n, Sub)
    IN  IF r < 0 THEN 0 ELSE IF r > 255 THEN 255 ELSE r

\* u64 to_string
RECURSIVE Decimal(_)
Decimal(t) == IF t < 10 THEN <<48 + t>> ELSE Decimal(t \div 10) \o <<48 + (t % 10)>>

\* (mutant) the rows are written bottom up.
PaletteImageReversed(colors) ==
    Image(1, 4, [i \in 1..4 |-> <<[k \in 1..3 |-> Quantize(colors[5 - i][k])]>>])

\* ImageBuffer::new(1, 4) and put_pixel(0, i, ..) for each color i.
PaletteImage(colors) ==
    Image(1, 4, [i \in 1..4 |-> <<[k \in 1..3 |-> Quantize(colors[i][k])]>>])

\* format!("palette_{}.png", timestamp)
PaletteFileName(timestamp) == S_palette_ \o Decimal(timestamp) \o S_dot_png

\* ImageBuffer::save: File::create needs the parent directory and truncates
\* an existing file; a failure while writing leaves the file truncated.
image_save(f, path, image, fault) ==
    IF fault = "create" \/ ~is_dir(f, parent(path)) \/ is_dir(f, path)
    THEN [ok |-> FALSE, fs |-> f]
    ELSE IF fault = "write"
    THEN [ok |-> FALSE, fs |-> [f EXCEPT !.files = (path :> Truncated) @@ @]]
    ELSE [ok |-> TRUE, fs |-> [f EXCEPT !.files = (path :> image) @@ @]]

\* fn save_palette_image
save_palette_image(f, timestamp, colors, fault) ==
    LET u == user_palettes_dir(f, fault # "mkroot")
        custom_dir == join(u.dir, to_lowercase(CUSTOM_CATEGORY))
        mk == IF ~exists(u.fs, custom_dir)
              THEN create_dir_all(u.fs, custom_dir, fault # "mkdir")
              ELSE [ok |-> TRUE, fs |-> u.fs]
        path == join(custom_dir, PaletteFileName(timestamp))
        w == image_save(mk.fs, path, PaletteImage(colors), fault)
    IN  IF ~mk.ok
        THEN [ok |-> FALSE, err |-> "Failed to create custom palettes dir",
              path |-> <<>>, fs |-> mk.fs]
        ELSE IF ~w.ok
        THEN [ok |-> FALSE, err |-> "Failed to save palette image",
              path |-> <<>>, fs |-> w.fs]
        ELSE [ok |-> TRUE, err |-> "", path |-> path, fs |-> w.fs]

\* fn delete_palette_image
delete_palette_image(f, path, fault) ==
    LET u == user_palettes_dir(f, fault # "mkroot")
    IN  IF ~starts_with(path, u.dir)
        THEN [ok |-> FALSE, err |-> "Cannot delete bundled palettes", fs |-> u.fs]
        ELSE LET r == remove_file(u.fs, path, fault # "unlink")
             IN  IF r.ok THEN [ok |-> TRUE, err |-> "", fs |-> r.fs]
                 ELSE [ok |-> FALSE, err |-> "Failed to delete palette", fs |-> r.fs]

(***************************************************************************)
(* The sampler on its own: images of every height a word can hold.         *)
(***************************************************************************)
MaxWidth == 3

Widths == 0..MaxWidth \cup {U32 - 1}
Heights == 0..(U32 - 1)

\* Another image is decoded (one dimension differs from the last one).
Decode(w, h) ==
    /\ w = img.width \/ h = img.height
    /\ <<w, h>> # <<img.width, img.height>>
    /\ img' = Image(w, h, <<>>)
    /\ sample' = NoSample
    /\ UNCHANGED <<gl, owned, call, fs, now, op>>

\* extract_colors_from_image runs on the decoded image.
Sample ==
    /\ sample' = extract_colors(img)
    /\ UNCHANGED <<gl, owned, call, fs, now, op, img>>

InitSampler ==
    /\ img \in {Image(w, h, <<>>) : w \in Widths, h \in {0, 1, 4}}
    /\ sample = NoSample
    /\ gl = 0 /\ owned = 0 /\ call = 0 /\ fs = 0 /\ now = 0 /\ op = 0

NextSampler ==
    \/ \E w \in Widths, h \in Heights : Decode(w, h)
    \/ Sample

SpecSampler == InitSampler /\ [][NextSampler]_vars

(***************************************************************************)
(* The palette catalog over the filesystem and the clock.                  *)
(***************************************************************************)
MaxClock == 1       \* the clock runs over the seconds 0..MaxClock

BundledRoot == <<N_usr, N_share, N_wallrus, N_palettes>>
BundledImage == Image(2, 8, <<>>)

\* An installed application: the executable, and a bundled root with the
\* categories warm/ and Warm/, a loose image and a file that is no image.
\* The user data directory does not exist yet.
BaseFs ==
    [dirs |-> Prefixes(BundledRoot) \cup Prefixes(parent(current_exe))
              \cup {join(BundledRoot, N_warm), join(BundledRoot, N_Warm)},
     files |-> (current_exe :> Truncated)
               @@ (BundledRoot \o <<N_warm, N_a_png>> :> BundledImage)
               @@ (BundledRoot \o <<N_warm, N_b_PNG>> :> BundledImage)
               @@ (BundledRoot \o <<N_Warm, N_a_png>> :> BundledImage)
               @@ (BundledRoot \o <<N_Warm, N_notes_txt>> :> Truncated)
               @@ (BundledRoot \o <<N_c_png>> :> BundledImage)]

CustomDir == join(UserDir, N_custom)

\* The channel numerators of palettes of 8-bit colors, and of one whose
\* floats are not 8-bit values (between two steps, below 0, above 1).
Exact == << <<0, 255 * Sub, 7 * Sub>>, <<Sub, 2 * Sub, 3 * Sub>>,
            <<200 * Sub, 0, 0>>, <<128 * Sub, 127 * Sub, 255 * Sub>> >>
ExactToo == << <<255 * Sub, 255 * Sub, 255 * Sub>>, <<0, 0, 0>>,
               <<254 * Sub, Sub, 64 * Sub>>, <<0, 0, 0>> >>
Inexact == << <<1, 255 * Sub + 1, 7 * Sub>>, <<0 - Sub, 2 * Sub, 3 * Sub>>,
              <<200 * Sub, 0, 0>>, <<128 * Sub, 127 * Sub, 300 * Sub>> >>
SavePalettes == {Exact, ExactToo, Inexact}

IsEightBit(colors) ==
    \A i \in 1..4 : \A k \in 1..3 :
        colors[i][k] % Sub = 0 /\ colors[i][k] \div Sub \in 0..255

SavedPaths == {join(CustomDir, PaletteFileName(t)) : t \in 0..MaxClock}

\* The paths a caller may hand to delete_palette_image: saved palettes, a
\* user palette, the custom directory itself, a bundled palette, and a
\* path that starts with the user root and leaves it through `..`.
Traversal ==
    UserDir \o <<DotDot, DotDot, DotDot>> \o BundledRoot \o <<N_warm, N_a_png>>
DeleteArgs ==
    SavedPaths \cup {CustomDir, BundledRoot \o <<N_warm, N_a_png>>, Traversal}
ExtractArgs ==
    SavedPaths \cup {BundledRoot \o <<N_c_png>>, BundledRoot \o <<N_Warm, N_notes_txt>>}

NoOp == [name |-> "none", path |-> <<>>, ok |-> TRUE, err |-> "", colors |-> <<>>,
         catalog |-> <<>>, before |-> BaseFs]

\* SystemTime::now() ... as_secs()
Timestamp == now

Save(colors, fault) ==
    /\ LET r == save_palette_image(fs, Timestamp, colors, fault)
       IN  /\ fs' = r.fs
           /\ op' = [NoOp EXCEPT !.name = "save", !.path = r.path, !.ok = r.ok,
                                 !.err = r.err, !.colors = colors, !.before = fs]
    /\ UNCHANGED <<gl, owned, call, now, img, sample>>

DeleteImage(path, fault) ==
    /\ LET r == delete_palette_image(fs, path, fault)
       IN  /\ fs' = r.fs
           /\ op' = [NoOp EXCEPT !.name = "delete", !.path = path, !.ok = r.ok,
                                 !.err = r.err, !.before = fs]
    /\ UNCHANGED <<gl, owned, call, now, img, sample>>

List(fault) ==
    /\ LET r == list_palette_categories(fs, fault # "mkroot")
       IN  /\ fs' = r.fs
           /\ \E c \in r.catalogs :
                op' = [NoOp EXCEPT !.name = "list", !.catalog = c, !.before = fs]
    /\ UNCHANGED <<gl, owned, call, now, img, sample>>

\* extract_colors_from_image(path); op.colors keeps the colors of the save
\* that has just returned this path.
Extract(path) ==
    /\ sample' = extract_colors_from_image(fs, path)
    /\ op' = [NoOp EXCEPT !.name = "extract", !.path = path,
                          !.ok = sample'.ok, !.err = sample'.err,
                          !.colors = IF op.name = "save" /\ op.ok /\ op.path = path
                                     THEN op.colors ELSE <<>>,
                          !.before = fs]
    /\ UNCHANGED <<gl, owned, call, fs, now, img>>

\* A second passes.
Tick ==
    /\ now < MaxClock
    /\ now' = now + 1
    /\ UNCHANGED <<gl, owned, call, fs, op, img, sample>>

InitPalette ==
    /\ fs = BaseFs
    /\ now = 0
    /\ op = NoOp
    /\ sample = NoSample
    /\ gl = 0 /\ owned = 0 /\ call = 0 /\ img = 0

\* The catalog: palettes are saved, deleted and listed as the clock runs.
NextPalette ==
    \/ \E fault \in {"none", "mkroot", "mkdir", "create", "write"} : Save(Exact, fault)
    \/ \E path \in DeleteArgs, fault \in {"none", "mkroot", "unlink"} :
         DeleteImage(path, fault)
    \/ \E fault \in {"none", "mkroot"} : List(fault)
    \/ Tick

SpecPalette == InitPalette /\ [][NextPalette]_vars

\* The round trip: palettes are saved and read back as the clock runs.
NextRound ==
    \/ \E c \in SavePalettes, fault \in {"none", "mkroot", "mkdir", "create", "write"} :
         Save(c, fault)
    \/ \E path \in ExtractArgs : Extract(path)
    \/ Tick

SpecRound == InitPalette /\ [][NextRound]_vars

(***************************************************************************)
(* The claims about src/palette.rs.                                        *)
(***************************************************************************)
\* The path has the components of base in front.
PrefixedBy(path, base) == \E n \in 0..Len(path) : SubSeq(path, 1, n) = base

DeniedDelete == op.name = "delete" /\ ~PrefixedBy(op.path, UserDir)

\* C4 (as stated): delete_palette_image with a path not prefixed by the user
\* root returns the permission error and changes nothing in the filesystem,
\* whatever the filesystem was, the user root missing included.
C4_NoMutation ==
    DeniedDelete =>
        /\ ~op.ok /\ op.err = "Cannot delete bundled palettes"
        /\ fs = op.before

\* C4 (amended): delete_palette_image with a path not prefixed by the user
\* root returns the permission error and removes or changes no file and no
\* existing directory; the one change it can make is to create the user
\* root (and its missing ancestors) when the user root does not exist, and
\* with the user root in place the filesystem is left exactly as it was.
C4_DeniedChangesNoFile ==
    DeniedDelete =>
        /\ ~op.ok /\ op.err = "Cannot delete bundled palettes"
        /\ fs.files = op.before.files
        /\ op.before.dirs \subseteq fs.dirs
        /\ fs.dirs \ op.before.dirs \subseteq Prefixes(UserDir)
        /\ (UserDir \in op.before.dirs => fs = op.before)

C4_Witness ==
    /\ DeniedDelete
    /\ UserDir \notin op.before.dirs
    /\ UserDir \in fs.dirs
    /\ is_file(fs, op.path)

\* C5: whatever save_palette_image and delete_palette_image were called
\* with, every file outside the user root is still there with the content
\* it had.
C5_OutsideUntouched ==
    \A p \in DOMAIN BaseFs.files :
        ~PrefixedBy(p, UserDir) =>
            p \in DOMAIN fs.files /\ fs.files[p] = BaseFs.files[p]

\* C6: for an image with width >= 1 and height >= 1 the sampler returns 4
\* colors, read at column width/2 < width and at the rows
\* min(floor(height/4)*i + floor(height/4)/2, height-1) < height for
\* i = 0..3, with no wrap of the unsigned arithmetic; for width = 0 or
\* height = 0 it returns the zero-dimensions error and reads no pixel.
C6_SamplesInside ==
    sample.err # "none" =>
        IF img.width >= 1 /\ img.height >= 1
        THEN /\ sample.ok /\ ~sample.panic /\ ~sample.wrapped
             /\ Len(sample.colors) = 4 /\ Len(sample.at) = 4
             /\ \A i \in 1..4 :
                  LET band == img.height \div 4
                      row == band * (i - 1) + band \div 2
                  IN  /\ sample.at[i][1] = img.width \div 2
                      /\ sample.at[i][1] < img.width
                      /\ sample.at[i][2] = IF row < img.height - 1 THEN row
                                           ELSE img.height - 1
                      /\ sample.at[i][2] < img.height
        ELSE /\ ~sample.ok /\ sample.err = "Image has zero dimensions"
             /\ sample.at = <<>> /\ sample.colors = <<>> /\ ~sample.panic

C6_Witness ==
    /\ sample.ok
    /\ img.height % 4 = 3 /\ img.height > 4
    /\ img.width > 1
    /\ sample.at[4][2] < img.height - 1

\* C7: save_palette_image(c) for 8-bit colors c, then
\* extract_colors_from_image on the returned path, yields c in the same
\* order: row i of the 1x4 file holds color i, and the sampler reads the
\* rows 0, 1, 2, 3 in that order. (Every 8-bit channel value v, given as
\* v/255, is stored as v.)
C7_RoundTrip ==
    (op.name = "extract" /\ op.colors # <<>> /\ IsEightBit(op.colors)) =>
        /\ \A v \in 0..255 : PaletteImage(<<<<v * Sub, 0, 0>>, <<0, v * Sub, 0>>,
                                            <<0, 0, v * Sub>>, <<0, 0, 0>>>>).rows
                               = <<<<<<v, 0, 0>>>>, <<<<0, v, 0>>>>, <<<<0, 0, v>>>>, <<<<0, 0, 0>>>>>>
        /\ sample.ok
        /\ Len(sample.colors) = 4
        /\ \A i \in 1..4 :
             /\ sample.at[i] = <<0, i - 1>>
             /\ sample.colors[i] = fs.files[op.path].rows[i][1]
             /\ \A k \in 1..3 : sample.colors[i][k] * Sub = op.colors[i][k]

C7_Witness ==
    /\ op.name = "extract" /\ op.colors = Exact
    /\ sample.ok
    /\ now > 0

\* C8: for a fixed snapshot, list_palette_categories returns the same
\* catalog (category names ascending, each category's paths sorted by file
\* name) whatever the order in which the directories are enumerated, two
\* subfolders mapping to one category name included.
C8_OrderIndependent ==
    op.name = "list" =>
        \A c \in list_palette_categories(op.before, TRUE).catalogs : c = op.catalog

\* The paths of a catalog, the image files a listing has to show, and the
\* category a path is listed under.
Listed(c) == UNION {{c[i].images[j] : j \in DOMAIN c[i].images} : i \in DOMAIN c}
Recognised(path) ==
    LET ext == extension(file_name(path))
    IN  \E e \in {S_png, S_jpg, S_jpeg, S_webp} :
          /\ Len(e) = Len(ext)
          /\ \A i \in DOMAIN e : e[i] = ext[i] \/ e[i] = ext[i] + 32
Roots(f) ==
    {UserDir} \cup (IF bundled_palettes_dir(f).some
                    THEN {bundled_palettes_dir(f).dir} ELSE {})
Present(f) ==
    {p \in DOMAIN f.files :
        /\ Recognised(p)
        /\ \E r \in Roots(f) : starts_with(p, r) /\ Len(p) - Len(r) \in {1, 2}}
ListedUnder(c, name, path) ==
    \E i \in DOMAIN c : c[i].name = name /\ \E j \in DOMAIN c[i].images : c[i].images[j] = path

C10_SaveNeverOverwrites ==
    (op.name = "save" /\ op.ok) => ~exists(op.before, op.path)

====
